---- MODULE Spec2Model ----
(***************************************************************************)
(* LS7366R quadrature counter driver (ls7366r.py) over an SPI channel.     *)
(*                                                                         *)
(* The driver keeps no register copy: all register state lives in the chip *)
(* behind self._spi.  The model has the chip's registers as state, one     *)
(* operator per driver method (threading a call record s through the SPI   *)
(* transactions the method issues, in program order) and one action per    *)
(* method call.  The same operators also run on a channel that fails, and  *)
(* one transaction at a time for two callers that share the handle (calls  *)
(* holds the calls in progress).                                           *)
(*                                                                         *)
(* Python values: a list is a sequence, None is <<>>, and an int returned  *)
(* by a property is the one-element sequence <<v>>, so that every `ret`    *)
(* is a sequence.  Bytes are 0..255.  The 32-bit chip registers DTR, CNTR  *)
(* and OTR are 4-tuples of bytes, most significant byte first.             *)
(***************************************************************************)
EXTENDS Integers, Sequences, FiniteSets, TLC

VARIABLES chip, handle, attrs, last, calls

vars == <<chip, handle, attrs, last, calls>>

----------------------------------------------------------------------------
(* Module-level tables and constants of ls7366r.py (hex value in comment). *)

COUNTER_BITS == <<32, 24, 16, 8>>
QUADRATURE_MODES == <<0, 1, 2, 4>>

QUADRX4 == 3
FREE_RUN == 0
DISABLE_INDX == 0
FILTER_1 == 0
BYTE_4 == 0
EN_CNTR == 0

CLR_MDR0 == 8
CLR_MDR1 == 16
CLR_CNTR == 32
CLR_STR == 48
READ_MDR0 == 72
READ_MDR1 == 80
READ_CNTR == 96
READ_OTR == 104
READ_STR == 112
WRITE_MDR1 == 144
WRITE_MDR0 == 136
WRITE_DTR == 152
LOAD_CNTR == 224
LOAD_OTR == 228

----------------------------------------------------------------------------
(* Python int operators on the operand ranges the driver uses.             *)

RECURSIVE And(_, _)
\* x & m for a mask m >= 0; x may be negative (two's complement, as Python).
And(x, m) == IF m = 0 THEN 0
             ELSE (x % 2) * (m % 2) + 2 * And(x \div 2, m \div 2)

RECURSIVE Or(_, _)
\* a | b for a, b >= 0.
Or(a, b) == IF a = 0 /\ b = 0 THEN 0
            ELSE (IF a % 2 = 1 \/ b % 2 = 1 THEN 1 ELSE 0)
                 + 2 * Or(a \div 2, b \div 2)

\* x >> k (arithmetic, rounds toward minus infinity, as Python).
Shr(x, k) == x \div (2 ^ k)

\* `v in t` and t.index(v) for a tuple t; index is 0-based, -1 stands for
\* the ValueError that tuple.index raises when v is absent.
In(v, t) == \E i \in 1..Len(t) : t[i] = v
Index(t, v) == IF In(v, t)
               THEN (CHOOSE i \in 1..Len(t) :
                        t[i] = v /\ \A j \in 1..(i - 1) : t[j] # v) - 1
               ELSE -1

(* A Python int too wide for a 32-bit word: value = hi * 256 + lo with     *)
(* lo in 0..255.  Used for the accumulator of _get_counts, which reaches   *)
(* 2^32 - 1 before the sign correction.                                    *)
WZero == [hi |-> 0, lo |-> 0]
WShl8(c) == [hi |-> c.hi * 256 + c.lo, lo |-> 0]               \* c <<= 8
WOr(c, b) == [hi |-> c.hi, lo |-> Or(c.lo, b)]                 \* c |= b, b a byte
WShr(c, k) == IF k >= 8 THEN c.hi \div (2 ^ (k - 8))           \* c >> k
              ELSE c.hi * (2 ^ (8 - k)) + (c.lo \div (2 ^ k))
WSubShl1(c, k) == [hi |-> c.hi - 2 ^ (k - 8), lo |-> c.lo]     \* c -= 1 << k, k >= 8
WInt(c) == c.hi * 256 + c.lo

----------------------------------------------------------------------------
(* The chip behind self._spi.  An instruction byte selects the operation   *)
(* in bits 7-6 and the register in bits 5-3; in n-byte mode (MDR1 bits     *)
(* 0-1) a DTR write takes the first n payload bytes and a CNTR/OTR read    *)
(* returns n bytes; LOAD CNTR copies DTR to CNTR.                          *)

Zero4 == <<0, 0, 0, 0>>

ChipBytes(c) == 4 - And(c.mdr1, 3)

\* The low n bytes of a 4-byte register, most significant first.
Low(reg, n) == SubSeq(reg, 5 - n, 4)

\* The register with its low n bytes taken from the front of the payload.
StoreLow(reg, payload, n) ==
    [i \in 1..4 |-> IF i >= 5 - n /\ i - (4 - n) <= Len(payload)
                    THEN payload[i - (4 - n)] ELSE reg[i]]

\* The register after one count up (d = 1) or down (d = -1) of its low n
\* bytes, wrapping at the width.
CountLow(reg, n, d) ==
    LET edge == IF d = 1 THEN 255 ELSE 0
    IN  [k \in 1..4 |-> IF k >= 5 - n /\ (\A j \in (k + 1)..4 : reg[j] = edge)
                        THEN (reg[k] + d) % 256 ELSE reg[k]]

\* The chip after one count pulse from the encoder.
ChipCount(c, d) == [c EXCEPT !.cntr = CountLow(c.cntr, 4 - And(c.mdr1, 3), d)]

IrOp(ir) == And(ir, 192)
IrReg(ir) == And(ir, 56)

\* The registers after the chip has clocked in the bytes tx.
ChipAfter(c, tx) ==
    LET op == IrOp(tx[1])
        reg == IrReg(tx[1])
        payload == Tail(tx)
    IN  CASE op = 0 /\ reg = 8 -> [c EXCEPT !.mdr0 = 0]
          [] op = 0 /\ reg = 16 -> [c EXCEPT !.mdr1 = 0]
          [] op = 0 /\ reg = 32 -> [c EXCEPT !.cntr = Zero4]
          [] op = 0 /\ reg = 48 -> [c EXCEPT !.str = 0]
          [] op = 64 /\ reg = 32 -> [c EXCEPT !.otr = c.cntr]
          [] op = 128 /\ reg = 8 /\ payload # <<>> -> [c EXCEPT !.mdr0 = payload[1]]
          [] op = 128 /\ reg = 16 /\ payload # <<>> -> [c EXCEPT !.mdr1 = payload[1]]
          [] op = 128 /\ reg = 24 ->
                [c EXCEPT !.dtr = StoreLow(c.dtr, payload, ChipBytes(c))]
          [] op = 192 /\ reg = 32 -> [c EXCEPT !.cntr = c.dtr]
          [] op = 192 /\ reg = 40 -> [c EXCEPT !.otr = c.cntr]
          [] OTHER -> c

\* The bytes the chip drives while tx is clocked in; hiz is what the host
\* samples while the chip does not drive the line.
ChipOut(c, tx, hiz) ==
    LET op == IrOp(tx[1])
        reg == IrReg(tx[1])
        data == IF op # 64 THEN <<>>
                ELSE CASE reg = 8 -> <<c.mdr0>>
                       [] reg = 16 -> <<c.mdr1>>
                       [] reg = 32 -> Low(c.cntr, ChipBytes(c))
                       [] reg = 40 -> Low(c.otr, ChipBytes(c))
                       [] reg = 48 -> <<c.str>>
                       [] OTHER -> <<>>
    IN  [i \in 1..Len(tx) |->
            IF i >= 2 /\ i - 1 <= Len(data) THEN data[i - 1] ELSE hiz]

----------------------------------------------------------------------------
(* The SPI channel object.  s is the record of the running call: the chip, *)
(* the transactions issued so far, the exception raised (if any) and the   *)
(* value returned by the last method that has returned.                    *)
(*                                                                         *)
(* A call runs to its end on a working channel by default.  Two more ways  *)
(* to run the same method code:                                            *)
(*   fault = k  the channel raises on the call's k-th transaction; landed  *)
(*              tells whether the bytes reached the chip before it did;    *)
(*   stepwise   the call is resumed after the transactions whose replies   *)
(*              are in replay (they are answered from replay, the chip is  *)
(*              not touched), performs one more transaction on the chip    *)
(*              and is suspended at the next one ("suspended" unwinds the  *)
(*              operators like an exception and is no outcome of a call).  *)

Enter(c, hiz) ==
    [chip |-> c, bus |-> <<>>, exc |-> "none", ret |-> <<>>, hiz |-> hiz,
     fault |-> 0, landed |-> FALSE, stepwise |-> FALSE, replay |-> <<>>]

EnterFault(c, hiz, k, landed) ==
    [Enter(c, hiz) EXCEPT !.fault = k, !.landed = landed]

Resume(c, hiz, replay) ==
    [Enter(c, hiz) EXCEPT !.stepwise = TRUE, !.replay = replay]

\* One transaction of the running call s0.  An xfer2 returns what the chip
\* shifts out, a writebytes nothing.  (The record of the call is taken as a
\* value, s, so that it is computed once.)
Transact(s0, by, call, tx) ==
    LET do(s) ==
            LET n == Len(s.bus) + 1
                rx == IF call = "xfer2" THEN ChipOut(s.chip, tx, s.hiz) ELSE <<>>
                entry(r, ok) == [by |-> by, call |-> call, tx |-> tx, rx |-> r, ok |-> ok]
            IN  IF s.exc # "none" THEN s
                ELSE IF n <= Len(s.replay)
                THEN [s EXCEPT !.bus = Append(s.bus, entry(s.replay[n], TRUE)),
                               !.ret = s.replay[n]]
                ELSE IF s.stepwise /\ n > Len(s.replay) + 1
                THEN [s EXCEPT !.exc = "suspended", !.ret = <<>>]
                ELSE IF n = s.fault
                THEN [s EXCEPT !.chip = IF s.landed THEN ChipAfter(s.chip, tx) ELSE s.chip,
                               !.bus = Append(s.bus, entry(<<>>, FALSE)),
                               !.exc = "TransportError",
                               !.ret = <<>>]
                ELSE [s EXCEPT !.chip = ChipAfter(s.chip, tx),
                               !.bus = Append(s.bus, entry(rx, TRUE)),
                               !.ret = rx]
    IN  CHOOSE r \in {do(s) : s \in {s0}} : TRUE

writebytes(s, by, tx) == Transact(s, by, "writebytes", tx)

xfer2(s, by, tx) == Transact(s, by, "xfer2", tx)

Raise(s, e) == IF s.exc # "none" THEN s ELSE [s EXCEPT !.exc = e, !.ret = <<>>]

Return(s, v) == IF s.exc # "none" THEN s ELSE [s EXCEPT !.ret = v]

\* [0] * n
Zeros(n) == [i \in 1..n |-> 0]

----------------------------------------------------------------------------
(* class LS7366R: the register helpers.                                    *)

\* the [1:] of a read helper: the byte clocked in during the instruction
\* byte is dropped
Slice1(r) == IF r.exc # "none" THEN r ELSE [r EXCEPT !.ret = Tail(r.ret)]

_clear_mdr0(s) == writebytes(s, "_clear_mdr0", <<CLR_MDR0>>)

_clear_mdr1(s) == writebytes(s, "_clear_mdr1", <<CLR_MDR1>>)

_clear_cntr(s) == writebytes(s, "_clear_cntr", <<CLR_CNTR>>)

_clear_str(s) == writebytes(s, "_clear_str", <<CLR_STR>>)

_read_mdr0(s) == Slice1(xfer2(s, "_read_mdr0", <<READ_MDR0, 0>>))

_read_mdr1(s) == Slice1(xfer2(s, "_read_mdr1", <<READ_MDR1, 0>>))

_read_str(s) == Slice1(xfer2(s, "_read_str", <<READ_STR, 0>>))

_write_mdr0(s, mode) == writebytes(s, "_write_mdr0", <<WRITE_MDR0, mode>>)

_write_mdr1(s, mode) == writebytes(s, "_write_mdr1", <<WRITE_MDR1, mode>>)

_write_dtr(s, value) ==
    writebytes(s, "_write_dtr", <<WRITE_DTR, And(Shr(value, 24), 255),
                                             And(Shr(value, 16), 255),
                                             And(Shr(value, 8), 255),
                                             And(value, 255)>>)

_load_cntr(s) == writebytes(s, "_load_cntr", <<LOAD_CNTR>>)

_load_otr(s) == writebytes(s, "_load_otr", <<LOAD_OTR>>)

----------------------------------------------------------------------------
(* class LS7366R: the properties.                                          *)

\* bits (getter)
bits_get(s) ==
    LET r == _read_mdr1(s)
    IN  IF r.exc # "none" THEN r
        ELSE [r EXCEPT !.ret = <<COUNTER_BITS[And(r.ret[1], 3) + 1]>>]

\* bits (setter) without the membership test: the ValueError then comes from
\* COUNTER_BITS.index, after Mode1 has been read.
bits_set_unchecked(s, value) ==
    LET r == _read_mdr1(s)
        i == Index(COUNTER_BITS, value)
    IN  IF r.exc # "none" THEN r
        ELSE IF i < 0 THEN Raise(r, "ValueError")
        ELSE _write_mdr1(r, Or(And(r.ret[1], 252), i))

\* bits (setter) encoding the width as if the table were (8, 16, 24, 32).
bits_set_ascending(s, value) ==
    IF ~In(value, COUNTER_BITS) THEN Raise(s, "ValueError")
    ELSE LET r == _read_mdr1(s)
         IN  IF r.exc # "none" THEN r
             ELSE _write_mdr1(r, Or(And(r.ret[1], 252), (value \div 8) - 1))

\* bits setter that writes the width code alone instead of merging it into
\* the Mode1 byte it has read.
bits_set_overwrite(s, value) ==
    IF ~In(value, COUNTER_BITS) THEN Raise(s, "ValueError")
    ELSE LET r == _read_mdr1(s)
             i == Index(COUNTER_BITS, value)
         IN  IF r.exc # "none" THEN r
             ELSE IF i < 0 THEN Raise(r, "ValueError")
             ELSE _write_mdr1(r, i)

\* bits (setter)
bits_set(s, value) ==
    IF ~In(value, COUNTER_BITS) THEN Raise(s, "ValueError")
    ELSE LET r == _read_mdr1(s)
             i == Index(COUNTER_BITS, value)
         IN  IF r.exc # "none" THEN r
             ELSE IF i < 0 THEN Raise(r, "ValueError")
             ELSE _write_mdr1(r, Or(And(r.ret[1], 252), i))

\* quadrature (getter) returning the field without the table lookup.
quadrature_get_raw(s) ==
    LET r == _read_mdr0(s)
    IN  IF r.exc # "none" THEN r
        ELSE [r EXCEPT !.ret = <<And(r.ret[1], 3)>>]

\* quadrature (getter)
quadrature_get(s) ==
    LET r == _read_mdr0(s)
    IN  IF r.exc # "none" THEN r
        ELSE [r EXCEPT !.ret = <<QUADRATURE_MODES[And(r.ret[1], 3) + 1]>>]

\* quadrature (setter) with the mask 0xF0 in place of 0xFC.
quadrature_set_widemask(s, value) ==
    IF ~In(value, QUADRATURE_MODES) THEN Raise(s, "ValueError")
    ELSE LET r == _read_mdr0(s)
             i == Index(QUADRATURE_MODES, value)
         IN  IF r.exc # "none" THEN r
             ELSE _write_mdr0(r, Or(And(r.ret[1], 240), i))

\* quadrature (setter)
quadrature_set(s, value) ==
    IF ~In(value, QUADRATURE_MODES) THEN Raise(s, "ValueError")
    ELSE LET r == _read_mdr0(s)
             i == Index(QUADRATURE_MODES, value)
         IN  IF r.exc # "none" THEN r
             ELSE IF i < 0 THEN Raise(r, "ValueError")
             ELSE _write_mdr0(r, Or(And(r.ret[1], 252), i))

\* _read_cntr sized for the full 32-bit register whatever Mode1 holds.
_read_cntr_full(s) ==
    LET b == bits_get(s)
    IN  IF b.exc # "none" THEN b
        ELSE Slice1(xfer2(b, "_read_cntr", <<READ_CNTR>> \o Zeros(4)))

_read_cntr(s) ==
    LET b == bits_get(s)
    IN  IF b.exc # "none" THEN b
        ELSE Slice1(xfer2(b, "_read_cntr", <<READ_CNTR>> \o Zeros(b.ret[1] \div 8)))

_read_otr(s) ==
    LET b == bits_get(s)
    IN  IF b.exc # "none" THEN b
        ELSE Slice1(xfer2(b, "_read_otr", <<READ_OTR>> \o Zeros(b.ret[1] \div 8)))

RECURSIVE Accumulate(_, _)
\* for b in byte_values: counts <<= 8; counts |= b
Accumulate(counts, byte_values) ==
    IF byte_values = <<>> THEN counts
    ELSE Accumulate(WOr(WShl8(counts), Head(byte_values)), Tail(byte_values))

\* _get_counts testing the sign at bit 31 whatever the width.
_get_counts_word32(s) ==
    LET b == bits_get(s)
        r == _read_cntr(b)
        counts == Accumulate(WZero, r.ret)
    IN  IF b.exc # "none" THEN b
        ELSE IF r.exc # "none" THEN r
        ELSE IF WShr(counts, 31) # 0
             THEN [r EXCEPT !.ret = <<WInt(WSubShl1(counts, 32))>>]
             ELSE [r EXCEPT !.ret = <<WInt(counts)>>]

\* _get_counts that takes the bytes from the output register, the copy of
\* the counter latched by an earlier read, instead of reading the counter.
_get_counts_from_otr(s) ==
    LET b == bits_get(s)
        bits == b.ret[1]
        r == _read_otr(b)
        counts == Accumulate(WZero, r.ret)
    IN  IF b.exc # "none" THEN b
        ELSE IF r.exc # "none" THEN r
        ELSE IF WShr(counts, bits - 1) # 0
             THEN [r EXCEPT !.ret = <<WInt(WSubShl1(counts, bits))>>]
             ELSE [r EXCEPT !.ret = <<WInt(counts)>>]

_get_counts(s) ==
    LET b == bits_get(s)
        bits == b.ret[1]
        r == _read_cntr(b)
        counts == Accumulate(WZero, r.ret)
    IN  IF b.exc # "none" THEN b
        ELSE IF r.exc # "none" THEN r
        ELSE IF WShr(counts, bits - 1) # 0
             THEN [r EXCEPT !.ret = <<WInt(WSubShl1(counts, bits))>>]
             ELSE [r EXCEPT !.ret = <<WInt(counts)>>]

\* _set_counts with the two transactions in the other order.
_set_counts_load_first(s, value) == _write_dtr(_load_cntr(s), value)

\* _set_counts that ignores a failure of the DataTransfer write (a bare
\* try/except around _write_dtr) and loads the counter all the same.
_set_counts_best_effort(s, value) ==
    _load_cntr([_write_dtr(s, value) EXCEPT !.exc = "none"])

_set_counts(s, value) == _load_cntr(_write_dtr(s, value))

\* counts (getter)
counts_get(s) == _get_counts(s)

\* counts (setter)
counts_set(s, value) == _set_counts(s, value)

\* __init__ zeroing the counter with _clear_cntr instead of counts = 0.
__init___clear(s) ==
    LET s1 == _write_mdr0(s, Or(Or(Or(QUADRX4, FREE_RUN), DISABLE_INDX), FILTER_1))
        s2 == _write_mdr1(s1, Or(BYTE_4, EN_CNTR))
    IN  _clear_cntr(s2)

\* __init__ that zeroes the counter before it configures the width.
__init___counts_first(s) ==
    LET s1 == counts_set(s, 0)
        s2 == _write_mdr0(s1, Or(Or(Or(QUADRX4, FREE_RUN), DISABLE_INDX), FILTER_1))
    IN  _write_mdr1(s2, Or(BYTE_4, EN_CNTR))

__init__(s) ==
    LET s1 == _write_mdr0(s, Or(Or(Or(QUADRX4, FREE_RUN), DISABLE_INDX), FILTER_1))
        s2 == _write_mdr1(s1, Or(BYTE_4, EN_CNTR))
    IN  counts_set(s2, 0)

(* The class defines no `enabled` property and no __slots__, so            *)
(* `dev.enabled = v` binds a plain instance attribute and `dev.enabled`    *)
(* reads it back (AttributeError while unbound); neither reaches the bus.  *)
enabled_set(s, a, value) == [s |-> Return(s, <<>>), attrs |-> <<value>>]

enabled_get(s, a) ==
    IF a = <<>> THEN Raise(s, "AttributeError") ELSE Return(s, a)

----------------------------------------------------------------------------
(* Inputs of the calls and register contents the chip may be found in.     *)

\* Values near zero assigned to counts range over -Spread..Spread.
\* The public operations by name, as a caller that is suspended between two
\* transactions resumes them.
Invoke(op, arg, s) ==
    CASE op = "__init__"    -> __init__(s)
      [] op = "counts"      -> counts_get(s)
      [] op = "counts="     -> counts_set(s, arg[1])
      [] op = "bits"        -> bits_get(s)
      [] op = "bits="       -> bits_set(s, arg[1])
      [] op = "quadrature"  -> quadrature_get(s)
      [] op = "quadrature=" -> quadrature_set(s, arg[1])

\* The replies received in the transactions of bus.
Replies(bus) == [i \in 1..Len(bus) |-> bus[i].rx]

Spread == 1

\* counts = v: small values of both signs, and the values whose low bytes
\* are 0x7F and 0x80 0x00.
CountArgs == (-Spread..Spread) \cup {127, 32768}

\* bits = v and quadrature = v: every member of the table and values outside.
BitsArgs == {8, 16, 24, 32, 10, 12}
QuadArgs == {0, 1, 2, 3, 4}

\* What the host samples on the undriven line.
HiZ == {255}

\* Mode bytes written through _write_mdr0 / _write_mdr1: all fields set
\* (running mode, index mode, filter; flags, count disable).
Mdr0Args == {180}
Mdr1Args == {246}

\* Register contents left by a previous user of the chip.
Regs4 == {Zero4, <<255, 255, 255, 255>>, <<18, 52, 128, 127>>}

NoCall == [op |-> "none", arg |-> <<>>, exc |-> "none", ret |-> <<>>, bus |-> <<>>]

\* The callers that share the handle, and a caller with no call running.
Callers == {1, 2}
Idle == [op |-> "none", arg |-> <<>>, replay |-> <<>>]

\* calls.run[c] is the call caller c has running, with the replies it has
\* received so far; calls.serialized tells whether the callers wrap each
\* call in one shared mutex, and calls.owner who holds it (0: nobody).
NoCalls == [run |-> [c \in Callers |-> Idle], owner |-> 0, serialized |-> TRUE]

\* The state after the method call `op(arg)` that ended as the call record r.
Call(op, arg, r) ==
    /\ chip' = r.chip
    /\ last' = [op |-> op, arg |-> arg, exc |-> r.exc, ret |-> r.ret, bus |-> r.bus]
    /\ calls' = calls

\* No handle yet; the chip is as a previous user left it.
Init ==
    /\ chip \in [mdr0 : {0, 180}, mdr1 : {0, 246, 3}, dtr : Regs4, cntr : Regs4,
                 otr : {Zero4, <<1, 2, 3, 4>>}, str : {4}]
    /\ handle = FALSE
    /\ attrs = <<>>
    /\ last = NoCall
    /\ calls = NoCalls

\* LS7366R(spi)
Construct ==
    \E hiz \in HiZ :
        /\ Call("__init__", <<>>, __init__(Enter(chip, hiz)))
        /\ handle' = TRUE
        /\ attrs' = <<>>

GetCounts ==
    \E hiz \in HiZ :
        /\ handle
        /\ Call("counts", <<>>, counts_get(Enter(chip, hiz)))
        /\ UNCHANGED <<handle, attrs>>

SetCounts ==
    \E hiz \in HiZ, v \in CountArgs :
        /\ handle
        /\ Call("counts=", <<v>>, counts_set(Enter(chip, hiz), v))
        /\ UNCHANGED <<handle, attrs>>

GetBits ==
    \E hiz \in HiZ :
        /\ handle
        /\ Call("bits", <<>>, bits_get(Enter(chip, hiz)))
        /\ UNCHANGED <<handle, attrs>>

SetBits ==
    \E hiz \in HiZ, v \in BitsArgs :
        /\ handle
        /\ Call("bits=", <<v>>, bits_set(Enter(chip, hiz), v))
        /\ UNCHANGED <<handle, attrs>>

GetQuadrature ==
    \E hiz \in HiZ :
        /\ handle
        /\ Call("quadrature", <<>>, quadrature_get(Enter(chip, hiz)))
        /\ UNCHANGED <<handle, attrs>>

SetQuadrature ==
    \E hiz \in HiZ, v \in QuadArgs :
        /\ handle
        /\ Call("quadrature=", <<v>>, quadrature_set(Enter(chip, hiz), v))
        /\ UNCHANGED <<handle, attrs>>

GetEnabled ==
    \E hiz \in HiZ :
        /\ handle
        /\ Call("enabled", <<>>, enabled_get(Enter(chip, hiz), attrs))
        /\ UNCHANGED <<handle, attrs>>

SetEnabled ==
    \E hiz \in HiZ, v \in BOOLEAN :
        /\ handle
        /\ LET r == enabled_set(Enter(chip, hiz), attrs, v)
           IN  Call("enabled=", <<v>>, r.s) /\ attrs' = r.attrs
        /\ UNCHANGED handle

ClearMdr0 ==
    \E hiz \in HiZ :
        /\ handle
        /\ Call("_clear_mdr0", <<>>, _clear_mdr0(Enter(chip, hiz)))
        /\ UNCHANGED <<handle, attrs>>

ClearMdr1 ==
    \E hiz \in HiZ :
        /\ handle
        /\ Call("_clear_mdr1", <<>>, _clear_mdr1(Enter(chip, hiz)))
        /\ UNCHANGED <<handle, attrs>>

ClearCntr ==
    \E hiz \in HiZ :
        /\ handle
        /\ Call("_clear_cntr", <<>>, _clear_cntr(Enter(chip, hiz)))
        /\ UNCHANGED <<handle, attrs>>

ClearStr ==
    \E hiz \in HiZ :
        /\ handle
        /\ Call("_clear_str", <<>>, _clear_str(Enter(chip, hiz)))
        /\ UNCHANGED <<handle, attrs>>

ReadMdr0 ==
    \E hiz \in HiZ :
        /\ handle
        /\ Call("_read_mdr0", <<>>, _read_mdr0(Enter(chip, hiz)))
        /\ UNCHANGED <<handle, attrs>>

ReadMdr1 ==
    \E hiz \in HiZ :
        /\ handle
        /\ Call("_read_mdr1", <<>>, _read_mdr1(Enter(chip, hiz)))
        /\ UNCHANGED <<handle, attrs>>

ReadCntr ==
    \E hiz \in HiZ :
        /\ handle
        /\ Call("_read_cntr", <<>>, _read_cntr(Enter(chip, hiz)))
        /\ UNCHANGED <<handle, attrs>>

ReadOtr ==
    \E hiz \in HiZ :
        /\ handle
        /\ Call("_read_otr", <<>>, _read_otr(Enter(chip, hiz)))
        /\ UNCHANGED <<handle, attrs>>

ReadStr ==
    \E hiz \in HiZ :
        /\ handle
        /\ Call("_read_str", <<>>, _read_str(Enter(chip, hiz)))
        /\ UNCHANGED <<handle, attrs>>

LoadCntr ==
    \E hiz \in HiZ :
        /\ handle
        /\ Call("_load_cntr", <<>>, _load_cntr(Enter(chip, hiz)))
        /\ UNCHANGED <<handle, attrs>>

LoadOtr ==
    \E hiz \in HiZ :
        /\ handle
        /\ Call("_load_otr", <<>>, _load_otr(Enter(chip, hiz)))
        /\ UNCHANGED <<handle, attrs>>

WriteMdr0 ==
    \E hiz \in HiZ, m \in Mdr0Args :
        /\ handle
        /\ Call("_write_mdr0", <<m>>, _write_mdr0(Enter(chip, hiz), m))
        /\ UNCHANGED <<handle, attrs>>

WriteMdr1 ==
    \E hiz \in HiZ, m \in Mdr1Args :
        /\ handle
        /\ Call("_write_mdr1", <<m>>, _write_mdr1(Enter(chip, hiz), m))
        /\ UNCHANGED <<handle, attrs>>

WriteDtr ==
    \E hiz \in HiZ, v \in CountArgs :
        /\ handle
        /\ Call("_write_dtr", <<v>>, _write_dtr(Enter(chip, hiz), v))
        /\ UNCHANGED <<handle, attrs>>

----------------------------------------------------------------------------
(* Spec: a program that constructs the handle on a chip found in any       *)
(* state and then uses counts and bits.                                    *)

Next ==
    \/ Construct
    \/ GetCounts
    \/ SetCounts
    \/ GetBits
    \/ SetBits
    \/ GetQuadrature
    \/ ReadCntr
    \/ ReadOtr

Spec == Init /\ [][Next]_vars

(* SpecModes: the mode-register properties, from every content of the two  *)
(* mode registers (as _write_mdr0 / _write_mdr1 can leave them).           *)

InitModes ==
    /\ \E m0, m1 \in 0..255 :
          /\ m0 = QUADRX4 \/ m1 = 0
          /\ chip = [mdr0 |-> m0, mdr1 |-> m1, dtr |-> Zero4, cntr |-> Zero4,
                     otr |-> Zero4, str |-> 0]
    /\ handle = TRUE
    /\ attrs = <<>>
    /\ last = NoCall
    /\ calls = NoCalls

NextModes ==
    \/ GetBits
    \/ SetBits
    \/ GetQuadrature
    \/ SetQuadrature

SpecModes == InitModes /\ [][NextModes]_vars

(* SpecEnabled: assigning and reading `enabled`, from every Mode1 byte.    *)

InitEnabled ==
    /\ chip \in [mdr0 : {QUADRX4}, mdr1 : 0..255, dtr : {Zero4}, cntr : {Zero4},
                 otr : {Zero4}, str : {0}]
    /\ handle = TRUE
    /\ attrs = <<>>
    /\ last = NoCall
    /\ calls = NoCalls

NextEnabled ==
    \/ GetEnabled
    \/ SetEnabled
    \/ ReadMdr1

SpecEnabled == InitEnabled /\ [][NextEnabled]_vars

(* SpecDecode: reading counts, from every Mode1 byte and every counter     *)
(* content made of the bytes 0x00, 0x7F, 0x80, 0xFF.                       *)

EdgeBytes == {0, 127, 128, 255}

InitDecode ==
    /\ chip \in [mdr0 : {QUADRX4}, mdr1 : 0..255, dtr : {Zero4},
                 cntr : [1..4 -> EdgeBytes], otr : {Zero4}, str : {0}]
    /\ handle = TRUE
    /\ attrs = <<>>
    /\ last = NoCall
    /\ calls = NoCalls

NextDecode == GetCounts

SpecDecode == InitDecode /\ [][NextDecode]_vars

(* SpecHelpers: the register helpers, called directly.                     *)

InitHelpers ==
    /\ chip \in [mdr0 : {QUADRX4}, mdr1 : {0, 3}, dtr : {Zero4},
                 cntr : {Zero4, <<18, 52, 128, 127>>}, otr : {Zero4}, str : {4}]
    /\ handle = TRUE
    /\ attrs = <<>>
    /\ last = NoCall
    /\ calls = NoCalls

NextHelpers ==
    \/ ClearMdr0
    \/ ClearMdr1
    \/ ClearCntr
    \/ ClearStr
    \/ ReadMdr0
    \/ ReadMdr1
    \/ ReadCntr
    \/ ReadOtr
    \/ ReadStr
    \/ WriteMdr0
    \/ WriteMdr1
    \/ WriteDtr
    \/ LoadCntr
    \/ LoadOtr

SpecHelpers == InitHelpers /\ [][NextHelpers]_vars

(* Two callers sharing one handle, one transaction at a time.  The driver  *)
(* takes no lock (no method of src/ls7366r.py does), so a call of one      *)
(* caller can be suspended between any two of its transactions while the   *)
(* other caller runs.  When calls.serialized holds the callers wrap every  *)
(* call in one shared mutex of their own.                                  *)

ThreadCalls ==
    {<<"counts", <<>>>>, <<"counts=", <<1>>>>, <<"bits=", <<8>>>>,
     <<"bits=", <<32>>>>, <<"quadrature=", <<1>>>>}

InitThreads ==
    /\ chip \in [mdr0 : {QUADRX4}, mdr1 : {4, 7}, dtr : {Zero4},
                 cntr : {<<0, 0, 128, 127>>}, otr : {Zero4}, str : {4}]
    /\ handle = TRUE
    /\ attrs = <<>>
    /\ last = NoCall
    /\ calls \in {[NoCalls EXCEPT !.serialized = b] : b \in BOOLEAN}

\* A caller enters a public operation (taking the mutex first when the
\* callers serialize).
Begin ==
    \E c \in Callers, call \in ThreadCalls :
        /\ handle
        /\ calls.run[c].op = "none"
        /\ calls.serialized => calls.owner = 0
        /\ calls' = [calls EXCEPT
                        !.run[c] = [op |-> call[1], arg |-> call[2], replay |-> <<>>],
                        !.owner = IF calls.serialized THEN c ELSE 0]
        /\ UNCHANGED <<chip, handle, attrs, last>>

\* The outcome r of resuming caller c's call: suspended at a further
\* transaction, or returned / raised (which releases the mutex when the
\* callers serialize).
Suspended(c, r) ==
    /\ r.exc = "suspended"
    /\ chip' = r.chip
    /\ calls' = [calls EXCEPT !.run[c].replay = Replies(r.bus)]
    /\ UNCHANGED <<handle, attrs, last>>

Finished(c, r) ==
    /\ r.exc # "suspended"
    /\ chip' = r.chip
    /\ last' = [op |-> calls.run[c].op, arg |-> calls.run[c].arg, exc |-> r.exc,
                ret |-> r.ret, bus |-> r.bus]
    /\ calls' = [calls EXCEPT !.run[c] = Idle, !.owner = 0]
    /\ UNCHANGED <<handle, attrs>>

Resumed(c, r) == IF r.exc = "suspended" THEN Suspended(c, r) ELSE Finished(c, r)

\* A running call performs its next transaction, if it has one left, and is
\* suspended before the one after it, or returns, or raises.
Step ==
    \E c \in Callers, hiz \in HiZ :
        /\ calls.run[c].op # "none"
        /\ Resumed(c, Invoke(calls.run[c].op, calls.run[c].arg,
                             Resume(chip, hiz, calls.run[c].replay)))

NextThreads ==
    \/ Begin
    \/ Step

SpecThreads == InitThreads /\ [][NextThreads]_vars

(* Getters on a chip whose registers change between the calls: the encoder *)
(* counts, the counter is cleared, the mode registers are written.         *)

\* Pulses are counted while the counter is within MaxCount of zero.
MaxCount == 2

InitGetters ==
    /\ chip \in [mdr0 : {QUADRX4}, mdr1 : {0, 3}, dtr : {Zero4},
                 cntr : {Zero4, <<18, 52, 128, 127>>}, otr : {Zero4}, str : {4}]
    /\ handle = TRUE
    /\ attrs = <<>>
    /\ last = NoCall
    /\ calls = NoCalls

\* The counter bytes b stand for a value within MaxCount of zero.
Near(b) ==
    \/ (\A j \in 1..(Len(b) - 1) : b[j] = 0) /\ b[Len(b)] <= MaxCount
    \/ (\A j \in 1..(Len(b) - 1) : b[j] = 255) /\ b[Len(b)] >= 256 - MaxCount

\* The encoder moves one count while counting is enabled (Mode1 bit 2 clear).
Pulse ==
    \E d \in {-1, 1} :
        /\ (chip.mdr1 \div 4) % 2 = 0
        /\ Near(Low(ChipCount(chip, d).cntr, 4 - (chip.mdr1 % 4)))
        /\ chip' = ChipCount(chip, d)
        /\ last' = [NoCall EXCEPT !.op = "pulse", !.arg = <<d>>]
        /\ UNCHANGED <<handle, attrs, calls>>

NextGetters ==
    \/ GetBits
    \/ GetQuadrature
    \/ GetCounts
    \/ Pulse
    \/ ClearCntr
    \/ WriteMdr0
    \/ WriteMdr1
    \/ SetCounts

SpecGetters == InitGetters /\ [][NextGetters]_vars

(* Calls on a channel that can fail.  The channel raises on the k-th       *)
(* transaction of the call (k = 0: on none); whether the bytes of the      *)
(* failed transaction reached the chip is not known to the driver.         *)

FaultCalls ==
    {<<"counts", <<>>>>, <<"counts=", <<1>>>>, <<"bits", <<>>>>,
     <<"bits=", <<8>>>>, <<"bits=", <<32>>>>, <<"bits=", <<10>>>>,
     <<"quadrature", <<>>>>, <<"quadrature=", <<1>>>>, <<"quadrature=", <<4>>>>,
     <<"quadrature=", <<3>>>>}

FaultAt == 0..4

InitFaults ==
    /\ chip \in [mdr0 : {QUADRX4, 180}, mdr1 : {0, 3}, dtr : {Zero4},
                 cntr : {Zero4, <<18, 52, 128, 127>>}, otr : {Zero4}, str : {4}]
    /\ handle = FALSE
    /\ attrs = <<>>
    /\ last = NoCall
    /\ calls = NoCalls

\* LS7366R(spi) on a channel that may fail: no object when __init__ raises.
FaultyConstruct ==
    \E hiz \in HiZ, k \in FaultAt, landed \in BOOLEAN :
        LET r == __init__(EnterFault(chip, hiz, k, landed))
        IN  /\ Call("__init__", <<>>, r)
            /\ handle' = (handle \/ r.exc = "none")
            /\ attrs' = attrs

\* A public operation on a channel that may fail.
FaultyCall ==
    \E hiz \in HiZ, k \in FaultAt, landed \in BOOLEAN, call \in FaultCalls :
        /\ handle
        /\ Call(call[1], call[2], Invoke(call[1], call[2], EnterFault(chip, hiz, k, landed)))
        /\ UNCHANGED <<handle, attrs>>

NextFaults ==
    \/ FaultyConstruct
    \/ FaultyCall

SpecFaults == InitFaults /\ [][NextFaults]_vars

----------------------------------------------------------------------------
(* Properties.  Field encodings and bit positions are restated here from   *)
(* the chip's register layout, independently of the driver's tables.       *)

QuadEnc(q) == CASE q = 0 -> 0 [] q = 1 -> 1 [] q = 2 -> 2 [] q = 4 -> 3

BitsEnc(w) == CASE w = 32 -> 0 [] w = 24 -> 1 [] w = 16 -> 2 [] w = 8 -> 3

\* C3: a successful quadrature set changes only bits 0-1 of Mode0 and
\* nothing else on the chip, a successful bits set changes only bits 0-1 of
\* Mode1 and nothing else; after one setter follows the other, each field
\* holds the value last set.
C3_BitFieldIsolation ==
    [][ /\ (last'.op = "quadrature=" /\ last'.exc = "none") =>
              /\ chip'.mdr0 \div 4 = chip.mdr0 \div 4
              /\ chip' = [chip EXCEPT !.mdr0 = chip'.mdr0]
        /\ (last'.op = "bits=" /\ last'.exc = "none") =>
              /\ chip'.mdr1 \div 4 = chip.mdr1 \div 4
              /\ chip' = [chip EXCEPT !.mdr1 = chip'.mdr1]
        /\ (/\ last.op = "quadrature=" /\ last.exc = "none"
            /\ last'.op = "bits=" /\ last'.exc = "none") =>
              /\ chip'.mdr0 % 4 = QuadEnc(last.arg[1])
              /\ chip'.mdr1 % 4 = BitsEnc(last'.arg[1])
        /\ (/\ last.op = "bits=" /\ last.exc = "none"
            /\ last'.op = "quadrature=" /\ last'.exc = "none") =>
              /\ chip'.mdr1 % 4 = BitsEnc(last.arg[1])
              /\ chip'.mdr0 % 4 = QuadEnc(last'.arg[1])
      ]_vars

\* A quadrature set has succeeded on a Mode0 whose running-mode and
\* index-mode bits are set, with Mode1 not zero, and the field has changed.
C3_Witness ==
    /\ last.op = "quadrature=" /\ last.exc = "none"
    /\ (chip.mdr0 \div 4) % 16 = 15
    /\ chip.mdr1 = 0
    /\ last.bus[1].rx[2] # chip.mdr0

\* C4: bits = v with v outside {8,16,24,32} and quadrature = v with v
\* outside {0,1,2,4} end in ValueError with no bus transaction and every
\* chip register unchanged.
C4_InvalidArgumentBeforeBus ==
    [][ (\/ last'.op = "bits=" /\ last'.arg[1] \notin {8, 16, 24, 32}
         \/ last'.op = "quadrature=" /\ last'.arg[1] \notin {0, 1, 2, 4}) =>
            /\ last'.exc = "ValueError"
            /\ last'.bus = <<>>
            /\ chip' = chip
      ]_vars

\* bits = 10 has been rejected.
C4_Witness ==
    /\ last.op = "bits=" /\ last.arg = <<10>>
    /\ last.exc = "ValueError"
    /\ chip.mdr1 = 255

\* C5: quadrature = q with q in {0,1,2,4} succeeds on every Mode0 content
\* and leaves the encoding 0,1,2,3 in bits 0-1 of Mode0; a read of
\* quadrature right after a successful set returns the value set.
C5_QuadratureRoundTrip ==
    [][ /\ (last'.op = "quadrature=" /\ last'.arg[1] \in {0, 1, 2, 4}) =>
              /\ last'.exc = "none"
              /\ chip'.mdr0 % 4 = QuadEnc(last'.arg[1])
        /\ (/\ last.op = "quadrature=" /\ last.exc = "none"
            /\ last'.op = "quadrature") =>
              /\ last'.exc = "none"
              /\ last'.ret = last.arg
      ]_vars

\* quadrature = 4 has stored 3 over a different field value.
C5_Witness ==
    /\ last.op = "quadrature=" /\ last.arg = <<4>> /\ last.exc = "none"
    /\ chip.mdr0 % 4 = 3
    /\ last.bus[1].rx[2] % 4 = 1
    /\ chip.mdr0 > 3

\* C6: bits = w with w in {8,16,24,32} succeeds on every Mode1 content and
\* leaves the encoding 0 (32), 1 (24), 2 (16), 3 (8) in bits 0-1 of Mode1;
\* a read of bits right after returns w; the bits getter returns a member
\* of {8,16,24,32} for every Mode1 byte.
C6_BitsRoundTrip ==
    [][ /\ (last'.op = "bits=" /\ last'.arg[1] \in {8, 16, 24, 32}) =>
              /\ last'.exc = "none"
              /\ chip'.mdr1 % 4 = BitsEnc(last'.arg[1])
        /\ (/\ last.op = "bits=" /\ last.exc = "none"
            /\ last'.op = "bits") =>
              last'.ret = last.arg
        /\ last'.op = "bits" =>
              /\ last'.exc = "none"
              /\ Len(last'.ret) = 1
              /\ last'.ret[1] \in {8, 16, 24, 32}
              /\ BitsEnc(last'.ret[1]) = chip.mdr1 % 4
      ]_vars

\* bits = 8 has stored 3 in a Mode1 with the flag bits and the
\* count-disable bit set, where the field held 1 before.
C6_Witness ==
    /\ last.op = "bits=" /\ last.arg = <<8>> /\ last.exc = "none"
    /\ chip.mdr1 = 247
    /\ last.bus[1].rx[2] = 245

RECURSIVE Unsigned(_)
\* The big-endian value of a sequence of bytes.
Unsigned(b) == IF b = <<>> THEN 0
               ELSE b[Len(b)] + 256 * Unsigned(SubSeq(b, 1, Len(b) - 1))

\* The two's-complement value of a non-empty big-endian sequence of bytes:
\* the first byte carries the sign.
Signed(b) == (IF b[1] >= 128 THEN b[1] - 256 ELSE b[1]) * 256 ^ (Len(b) - 1)
             + Unsigned(Tail(b))

\* The width Mode1 byte m selects: field value 0, 1, 2, 3 is 32, 24, 16, 8.
WidthOf(m) == 32 - 8 * (m % 4)

\* C2: a read of counts returns the two's-complement value, at the width w
\* in Mode1, of the w/8 bytes that follow the first byte returned by the
\* Read-Counter transaction; it lies in [-2^(w-1), 2^(w-1)-1]; 0xFF at
\* width 8 is -1, 0x7F at width 8 is 127, 0x8000 at width 16 is -32768.
C2_SignedDecode ==
    last.op = "counts" =>
        LET w == WidthOf(chip.mdr1)
            rd == last.bus[Len(last.bus)]
            raw == Tail(rd.rx)
        IN  /\ last.exc = "none"
            /\ rd.tx[1] = 96
            /\ Len(raw) = w \div 8
            /\ raw = SubSeq(chip.cntr, 5 - w \div 8, 4)
            /\ last.ret = <<Signed(raw)>>
            /\ w < 32 => /\ last.ret[1] >= -(2 ^ (w - 1))
                         /\ last.ret[1] <= 2 ^ (w - 1) - 1
            /\ raw = <<255>> => last.ret = <<-1>>
            /\ raw = <<127>> => last.ret = <<127>>
            /\ raw = <<128, 0>> => last.ret = <<-32768>>

\* 0x8000 has been read as -32768 at width 16, from a Mode1 whose flag bits
\* and count-disable bit are set.
C2_Witness ==
    /\ last.op = "counts"
    /\ chip.mdr1 = 246
    /\ Tail(last.bus[3].rx) = <<128, 0>>
    /\ last.ret = <<-32768>>

\* C7: enabled = False sets the count-disable bit (0x04) of Mode1 and
\* leaves the other Mode1 bits, enabled = True clears it, and a read of
\* enabled right after returns the value assigned.
C7_EnabledProperty ==
    [][ /\ (last'.op = "enabled=" /\ last'.arg = <<FALSE>>) =>
              /\ (chip'.mdr1 \div 4) % 2 = 1
              /\ chip'.mdr1 \div 8 = chip.mdr1 \div 8
              /\ chip'.mdr1 % 4 = chip.mdr1 % 4
        /\ (last'.op = "enabled=" /\ last'.arg = <<TRUE>>) =>
              /\ (chip'.mdr1 \div 4) % 2 = 0
              /\ chip'.mdr1 \div 8 = chip.mdr1 \div 8
              /\ chip'.mdr1 % 4 = chip.mdr1 % 4
        /\ (last.op = "enabled=" /\ last'.op = "enabled") =>
              /\ last'.exc = "none"
              /\ last'.ret = last.arg
      ]_vars

\* v fits in w bits, two's complement.
InWidth(v, w) == w = 32 \/ (-(2 ^ (w - 1)) <= v /\ v <= 2 ^ (w - 1) - 1)

\* C1: with the chip at width w, counts = v for v in [-2^(w-1), 2^(w-1)-1]
\* followed by a read of counts returns v.
C1_CountsRoundTrip ==
    [][ (/\ last.op = "counts=" /\ last.exc = "none"
         /\ InWidth(last.arg[1], WidthOf(chip.mdr1))
         /\ last'.op = "counts") =>
            /\ last'.exc = "none"
            /\ last'.ret = last.arg
      ]_vars

\* C10: counts = v at width w sends the Write-DataTransfer instruction
\* followed by exactly w/8 bytes, the low w bits of v, most significant
\* byte first.
C10_WidthAwareDtrWrite ==
    (last.op = "counts=" /\ last.exc = "none") =>
        LET n == WidthOf(chip.mdr1) \div 8
            v == last.arg[1]
            wr == last.bus[1]
        IN  /\ wr.tx[1] = 152
            /\ Len(wr.tx) = 1 + n
            /\ \A i \in 1..n : wr.tx[1 + i] = (v \div 256 ^ (n - i)) % 256

\* C9 as stated: construction leaves Mode0, Mode1, DataTransfer and Counter
\* as they were and issues no write, load or clear transaction.
C9_ConstructLeavesChip ==
    [][ last'.op = "__init__" =>
            /\ chip'.mdr0 = chip.mdr0
            /\ chip'.mdr1 = chip.mdr1
            /\ chip'.dtr = chip.dtr
            /\ chip'.cntr = chip.cntr
            /\ \A i \in DOMAIN last'.bus : last'.bus[i].tx[1] \div 64 = 1
      ]_vars

\* C9 as amended: construction loads the default configuration.  Whatever
\* the chip held, afterwards Mode0 = 0x03, Mode1 = 0x00, DataTransfer = 0
\* and Counter = 0, OutputCounter and Status are as they were, and the
\* transactions issued are write and load transactions only.
C9_ConstructLoadsDefaults ==
    [][ last'.op = "__init__" =>
            /\ last'.exc = "none"
            /\ chip' = [chip EXCEPT !.mdr0 = 3, !.mdr1 = 0,
                                    !.dtr = <<0, 0, 0, 0>>, !.cntr = <<0, 0, 0, 0>>]
            /\ last'.bus # <<>>
            /\ \A i \in DOMAIN last'.bus :
                  /\ last'.bus[i].call = "writebytes"
                  /\ last'.bus[i].tx[1] \div 64 \in {2, 3}
      ]_vars

\* A handle has been constructed on a chip whose OutputCounter and Status
\* were not zero.
C9_Witness ==
    /\ last.op = "__init__"
    /\ chip.otr = <<1, 2, 3, 4>>
    /\ chip.str = 4
    /\ chip.cntr = <<0, 0, 0, 0>>

OpBits(op) == CASE op = "Clear" -> 0 [] op = "Read" -> 64
                [] op = "Write" -> 128 [] op = "Load" -> 192

RegBits(reg) == CASE reg = "Mode0" -> 8 [] reg = "Mode1" -> 16
                  [] reg = "DataTransfer" -> 24 [] reg = "Counter" -> 32
                  [] reg = "OutputCounter" -> 40 [] reg = "Status" -> 56

\* op_bits(op) | reg_bits(reg): the two occupy disjoint bits.
Encode(op, reg) == OpBits(op) + RegBits(reg)

\* The (operation, register) pair of each helper.
PairOf(by) == CASE by = "_clear_mdr0" -> <<"Clear", "Mode0">>
                [] by = "_clear_mdr1" -> <<"Clear", "Mode1">>
                [] by = "_clear_cntr" -> <<"Clear", "Counter">>
                [] by = "_clear_str" -> <<"Clear", "Status">>
                [] by = "_read_mdr0" -> <<"Read", "Mode0">>
                [] by = "_read_mdr1" -> <<"Read", "Mode1">>
                [] by = "_read_cntr" -> <<"Read", "Counter">>
                [] by = "_read_otr" -> <<"Read", "OutputCounter">>
                [] by = "_read_str" -> <<"Read", "Status">>
                [] by = "_write_mdr0" -> <<"Write", "Mode0">>
                [] by = "_write_mdr1" -> <<"Write", "Mode1">>
                [] by = "_write_dtr" -> <<"Write", "DataTransfer">>
                [] by = "_load_cntr" -> <<"Load", "Counter">>
                [] by = "_load_otr" -> <<"Load", "OutputCounter">>

\* C8: the instruction byte of every transaction a helper issues is
\* op_bits(op) | reg_bits(reg) for the helper's pair; Read-Counter is 0x60
\* and Write-Mode0 is 0x88.
C8_InstructionEncoding ==
    \A i \in DOMAIN last.bus :
        LET t == last.bus[i]
        IN  /\ t.tx[1] = Encode(PairOf(t.by)[1], PairOf(t.by)[2])
            /\ t.by = "_read_cntr" => t.tx[1] = 96
            /\ t.by = "_write_mdr0" => t.tx[1] = 136

(***************************************************************************)
(* C11  No stale width on reads.                                           *)
(***************************************************************************)

\* n zero filler bytes.
Filler(n) == [j \in 1..n |-> 0]

\* C11: in every driver operation, each Counter or OutputCounter read
\* transaction comes directly after a Read-Mode1 transaction of the same
\* operation and is 1 + w/8 bytes long, the instruction byte followed by w/8
\* zero bytes, w being the width held in Mode1 at that moment; and the
\* counts read that follows a bits assignment transfers w/8 bytes for the
\* width just assigned and decodes the bytes it received at that width.
C11_NoStaleWidthOnReads ==
    [][ /\ \A i \in 1..Len(last'.bus) :
              last'.bus[i].by \in {"_read_cntr", "_read_otr"} =>
                  /\ i > 1
                  /\ last'.bus[i - 1].call = "xfer2"
                  /\ last'.bus[i - 1].tx = <<READ_MDR1, 0>>
                  /\ last'.bus[i].call = "xfer2"
                  /\ Len(last'.bus[i].tx) = 1 + WidthOf(chip.mdr1) \div 8
                  /\ last'.bus[i].tx =
                         <<IF last'.bus[i].by = "_read_cntr" THEN 96 ELSE 104>>
                             \o Filler(WidthOf(chip.mdr1) \div 8)
        /\ (last.op = "bits=" /\ last.exc = "none" /\ last'.op = "counts") =>
              /\ last'.exc = "none"
              /\ Len(last'.bus) = 3
              /\ Len(last'.bus[3].tx) = 1 + last.arg[1] \div 8
              /\ Len(last'.bus[3].rx) = 1 + last.arg[1] \div 8
              /\ last'.ret = <<Signed(Tail(last'.bus[3].rx))>>
      ]_vars

\* A counts read on a chip set to 8-bit words: one Mode1 read for the
\* decoding width, one for the transfer size, then a two-byte Counter read.
C11_Witness ==
    /\ last.op = "counts"
    /\ last.exc = "none"
    /\ chip.mdr1 % 4 = 3
    /\ Len(last.bus) = 3
    /\ last.bus[2].tx = <<READ_MDR1, 0>>
    /\ last.bus[3].tx = <<READ_CNTR, 0>>

(***************************************************************************)
(* C12  Commit ordering of a counts write.                                 *)
(***************************************************************************)

\* The four bytes of a 32-bit two's complement word, most significant first.
Word32(v) == <<(v \div 16777216) % 256, (v \div 65536) % 256,
               (v \div 256) % 256, v % 256>>

\* C12: a counts assignment issues exactly two transactions, Write-
\* DataTransfer and then the single-byte Load-Counter, and none other of
\* its own between them; its first transaction leaves Counter as it was,
\* right after its second Counter equals DataTransfer, and neither writes
\* Mode0 or Mode1.
C12_CountsWriteCommitOrder ==
    [][ \A c \in Callers :
          LET run == calls.run[c]
              now == calls'.run[c]
          IN  (run.op = "counts=" /\ now # run) =>
                /\ chip'.mdr0 = chip.mdr0
                /\ chip'.mdr1 = chip.mdr1
                /\ IF now.op = "counts="
                   THEN /\ run.replay = <<>>
                        /\ now.replay = << <<>> >>
                        /\ chip'.cntr = chip.cntr
                   ELSE /\ now = Idle
                        /\ Len(run.replay) = 1
                        /\ last'.op = "counts="
                        /\ last'.exc = "none"
                        /\ Len(last'.bus) = 2
                        /\ last'.bus[1].call = "writebytes"
                        /\ last'.bus[1].tx = <<152>> \o Word32(run.arg[1])
                        /\ last'.bus[2].call = "writebytes"
                        /\ last'.bus[2].tx = <<224>>
                        /\ chip'.dtr = chip.dtr
                        /\ chip'.cntr = chip'.dtr
      ]_vars

\* Between the two transactions of a counts assignment: DataTransfer holds
\* the new value, Counter still the old one.
C12_Witness ==
    \E c \in Callers :
        /\ calls.run[c].op = "counts="
        /\ Len(calls.run[c].replay) = 1
        /\ chip.dtr = <<0, 0, 0, 1>>
        /\ chip.cntr = <<0, 0, 128, 127>>

(***************************************************************************)
(* C13  Transport failure aborts the operation.                            *)
(***************************************************************************)

\* C13: when the channel fails on a transaction, the operation ends at once
\* with the transport error: the failed transaction is the operation's last
\* (no retry, no later transaction) and no failure is passed over; a bits or
\* quadrature setter whose register read fails issues no write, and a
\* counts assignment whose DataTransfer write fails issues no Load-Counter
\* and leaves Counter unchanged.
C13_TransportFailureAborts ==
    [][ LET bus == last'.bus
            n == Len(bus)
        IN  /\ \A i \in 1..n : ~bus[i].ok => (i = n /\ last'.exc = "TransportError")
            /\ last'.exc = "TransportError" =>
                  /\ n > 0
                  /\ ~bus[n].ok
                  /\ last'.ret = <<>>
            /\ (last'.op \in {"bits=", "quadrature="} /\ n > 0 /\ ~bus[1].ok) =>
                  /\ n = 1
                  /\ bus[1].call = "xfer2"
                  /\ chip'.mdr0 = chip.mdr0
                  /\ chip'.mdr1 = chip.mdr1
            /\ (last'.op = "counts=" /\ n > 0 /\ ~bus[1].ok) =>
                  /\ n = 1
                  /\ bus[1].tx[1] = 152
                  /\ chip'.cntr = chip.cntr
            /\ (last'.op = "__init__" /\ last'.exc # "none") => handle' = handle
      ]_vars

\* A counts assignment whose DataTransfer write failed after its bytes had
\* reached the chip: one transaction, the transport error, and the counter
\* not loaded from the DataTransfer register.
C13_Witness ==
    /\ last.op = "counts="
    /\ last.exc = "TransportError"
    /\ Len(last.bus) = 1
    /\ ~last.bus[1].ok
    /\ chip.dtr = <<0, 0, 0, 1>>
    /\ chip.cntr = Zero4

(***************************************************************************)
(* C14  Two callers on one handle.                                         *)
(***************************************************************************)

\* Every reply a running call holds from a Mode0 or Mode1 read is still the
\* content of that register.
Current(run) ==
    CASE run.op = "quadrature=" -> \A i \in 1..Len(run.replay) : run.replay[i][2] = chip.mdr0
      [] run.op \in {"bits=", "counts"} ->
             \A i \in 1..Len(run.replay) : i <= 2 => run.replay[i][2] = chip.mdr1
      [] OTHER -> TRUE

\* C14: when the two callers serialize their calls, every setter writes back
\* a byte computed from the register content at the time of the write (its
\* other bits are the register's), and every counts read decodes the bytes
\* it received at the width read for decoding, which is the width read for
\* sizing the transfer and the width in Mode1 at the transfer.
C14_SerializedCallers ==
    [][ calls.serialized =>
          \A c \in Callers :
            LET run == calls.run[c]
                bus == last'.bus
            IN  /\ Current(run)
                /\ (run.op # "none" /\ calls'.run[c] = Idle /\ last'.exc = "none") =>
                     /\ run.op = "quadrature=" =>
                           /\ bus[1].rx[2] = chip.mdr0
                           /\ bus[2].tx = <<136, (chip.mdr0 \div 4) * 4 + QuadEnc(run.arg[1])>>
                     /\ run.op = "bits=" =>
                           /\ bus[1].rx[2] = chip.mdr1
                           /\ bus[2].tx = <<144, (chip.mdr1 \div 4) * 4 + BitsEnc(run.arg[1])>>
                     /\ run.op = "counts" =>
                           /\ WidthOf(bus[1].rx[2]) = WidthOf(chip.mdr1)
                           /\ WidthOf(bus[2].rx[2]) = WidthOf(chip.mdr1)
                           /\ Len(bus[3].tx) = 1 + WidthOf(chip.mdr1) \div 8
                           /\ Len(bus[3].rx) = Len(bus[3].tx)
                           /\ last'.ret = <<Signed(Tail(bus[3].rx))>>
      ]_vars

\* Without the mutex: a counts read has done its first Mode1 read (width 8,
\* for decoding) and its second (width 32, for sizing), the other caller's
\* Mode1 write having fallen between them.
C14_Witness ==
    /\ ~calls.serialized
    /\ \E c \in Callers :
          /\ calls.run[c].op = "counts"
          /\ Len(calls.run[c].replay) = 2
          /\ calls.run[c].replay[1][2] % 4 = 3
          /\ calls.run[c].replay[2][2] % 4 = 0

\* The same statement without the mutex (it does not hold).
C14_Unserialized ==
    [][ \A c \in Callers : Current(calls.run[c]) ]_vars

(***************************************************************************)
(* C15  Getters are read-only and uncached.                                *)
(***************************************************************************)

\* The quadrature mode a Mode0 field value stands for.
QuadMode(f) == CASE f = 0 -> 0 [] f = 1 -> 1 [] f = 2 -> 2 [] f = 3 -> 4

\* C15: reading bits, quadrature or counts issues only read transactions
\* and leaves Mode0, Mode1, DataTransfer and Counter as they were; the value
\* returned is a function of the registers at the time of the call alone,
\* whatever happened to them (counting, a clear, a write) since the last
\* access.
C15_GettersReadOnlyUncached ==
    [][ last'.op \in {"bits", "quadrature", "counts"} =>
          /\ last'.exc = "none"
          /\ Len(last'.bus) > 0
          /\ \A i \in 1..Len(last'.bus) :
                /\ last'.bus[i].call = "xfer2"
                /\ last'.bus[i].tx[1] \div 64 = 1
                /\ \A j \in 2..Len(last'.bus[i].tx) : last'.bus[i].tx[j] = 0
          /\ chip'.mdr0 = chip.mdr0
          /\ chip'.mdr1 = chip.mdr1
          /\ chip'.dtr = chip.dtr
          /\ chip'.cntr = chip.cntr
          /\ last'.op = "bits" => last'.ret = <<WidthOf(chip.mdr1)>>
          /\ last'.op = "quadrature" => last'.ret = <<QuadMode(chip.mdr0 % 4)>>
          /\ last'.op = "counts" =>
                last'.ret = <<Signed(SubSeq(chip.cntr, 5 - WidthOf(chip.mdr1) \div 8, 4))>>
      ]_vars

\* counts read as -2 after the encoder has counted down from zero, on a
\* chip whose output register still holds another value.
C15_Witness ==
    /\ last.op = "counts"
    /\ last.ret = <<-2>>
    /\ chip.mdr1 % 4 = 3

(***************************************************************************)
(* C16  State after construction.                                          *)
(***************************************************************************)

\* C16: constructing a handle issues exactly Write-Mode0 (0x03), Write-Mode1
\* (0x00), Write-DataTransfer (zero in four payload bytes) and Load-Counter,
\* in that order, so the width is 32 when the four bytes are written; right
\* after it quadrature reads 4, bits reads 32, counts reads 0 and the
\* count-disable bit is clear.
C16_PostConstructionState ==
    [][ /\ last'.op = "__init__" =>
              /\ last'.exc = "none"
              /\ Len(last'.bus) = 4
              /\ \A i \in 1..4 : last'.bus[i].call = "writebytes"
              /\ last'.bus[1].tx = <<136, 3>>
              /\ last'.bus[2].tx = <<144, 0>>
              /\ last'.bus[3].tx = <<152, 0, 0, 0, 0>>
              /\ last'.bus[4].tx = <<224>>
              /\ chip'.mdr0 % 4 = 3
              /\ chip'.mdr1 % 4 = 0
              /\ (chip'.mdr1 \div 4) % 2 = 0
              /\ chip'.dtr = <<0, 0, 0, 0>>
              /\ chip'.cntr = <<0, 0, 0, 0>>
        /\ (last.op = "__init__" /\ last'.op = "quadrature") => last'.ret = <<4>>
        /\ (last.op = "__init__" /\ last'.op = "bits") => last'.ret = <<32>>
        /\ (last.op = "__init__" /\ last'.op = "counts") => last'.ret = <<0>>
      ]_vars

\* A handle constructed on a chip that was left in 8-bit mode with other
\* counter contents: the four transactions, width 32, registers zero.
C16_Witness ==
    /\ last.op = "__init__"
    /\ Len(last.bus) = 4
    /\ last.bus[3].tx = <<WRITE_DTR, 0, 0, 0, 0>>
    /\ chip.mdr1 = 0
    /\ chip.dtr = Zero4
    /\ chip.cntr = Zero4
    /\ chip.otr = <<1, 2, 3, 4>>

====
